---- MODULE Spec2Model ----
(***************************************************************************)
(* State-machine model of lib/cpp/src/transport/TSSLSocket.cpp:            *)
(*   - the reference-counted OpenSSL engine lifecycle owned by             *)
(*     TSSLSocketFactory (static initialized / count_ / mutex_),           *)
(*   - one TSSLSocket: lazy handshake, authorize(), read/write/peek/       *)
(*     flush/open/close,                                                   *)
(*   - TSSLSocketFactory::createSocket / setup minting that socket,        *)
(*   - DefaultClientAccessManager::verify, matchName and uppercase.        *)
(* Calls into OpenSSL, into the wrapped TSocket and into the AccessManager *)
(* are external: their results are chosen nondeterministically.            *)
(***************************************************************************)
EXTENDS Integers, Sequences, FiniteSets, TLC

\* ---------------------------------------------------------------- bounds
NumThreads == 2      \* threads that construct / destroy factories
MaxCycles == 2       \* constructions attempted by one thread
MaxAlt == 2          \* subjectAltName entries in a peer certificate
MaxCN == 2           \* commonName entries in a peer certificate
MaxRetries == 2      \* largest maxRecvRetries_ of a socket
MaxLen == 2          \* largest len handed to read() / write()
MaxHostLen == 5      \* longest hostname handed to matchName
MaxPatLen == 3       \* longest pattern handed to matchName

VARIABLES
  \* TSSLSocketFactory statics and the threads using factories
  initialized,        \* bool TSSLSocketFactory::initialized
  count_,             \* uint64_t TSSLSocketFactory::count_
  mutex_,             \* holder of TSSLSocketFactory::mutex_ (0 = free)
  mutexes,            \* lock table allocated and locking callbacks installed
  fpc,                \* position of each thread in the ctor / dtor
  cycles,             \* constructions each thread has attempted
  engineOp,           \* what the last step did to the engine
  ctorFailed,         \* some constructor has thrown
  factoryServer_,     \* TSSLSocketFactory::server_ of each thread's factory
  factoryAccess_,     \* TSSLSocketFactory::access_ of each thread's factory
  \* one TSSLSocket
  server_,            \* TSSLSocket::server_
  access_,            \* TSSLSocket::access_ ("NULL", "default", "custom")
  tsockOpen,          \* TSocket::isOpen()
  ssl_,               \* TSSLSocket::ssl_ (NoSSL, or the session)
  maxRecvRetries_,    \* TSocket::maxRecvRetries_
  host_,              \* TSocket::getHost()
  peerHost,           \* TSocket::getPeerHost()
  requireCert,        \* SSL_VERIFY_FAIL_IF_NO_PEER_CERT in the verify mode
  peer,               \* what the peer presents in the handshake
  handshakeAttempted, \* SSL_accept/SSL_connect was called since creation / close
  last,               \* the last operation: its result and the primitives it called
  auth,               \* the authorization pass of the last operation
  \* one call of DefaultClientAccessManager::verify or of matchName
  verifyCall          \* its arguments and, once made, its result

factoryVars == <<initialized, count_, mutex_, mutexes, fpc, cycles, engineOp, ctorFailed>>
configVars == <<server_, access_, maxRecvRetries_, host_, peerHost, requireCert, peer>>
sockVars == <<tsockOpen, ssl_, handshakeAttempted, last, auth>>
mintVars == <<factoryServer_, factoryAccess_>>
managerVars == <<verifyCall>>
vars == <<factoryVars, configVars, sockVars, mintVars, managerVars>>

\* ---------------------------------------------------------------- values
Decision == {"DENY", "SKIP", "ALLOW"}
AltTypes == {"GEN_DNS", "GEN_IPADD", "GEN_OTHER", "NULL"}
CNEntries == {"CN", "NULL"}
AccessKinds == {"NULL", "default", "custom"}
ShutdownFlags == {"SSL_SENT_SHUTDOWN", "SSL_RECEIVED_SHUTDOWN"}

SeqsUpTo(S, n) == UNION {[1..k -> S] : k \in 0..n}

\* An int32_t converted to uint32_t, as its two 16-bit halves (the value is
\* hi * 2^16 + lo): -1 becomes [hi |-> 65535, lo |-> 65535].
Uint32(x) == [hi |-> (x \div 65536) % 65536, lo |-> x % 65536]

NoSSL == [present |-> FALSE, rc |-> 0, authorized |-> FALSE, shutdown |-> {}]
\* mutant: the session of a failed handshake is released at once
SessionDroppedOnFailure(rc, authorized) ==
  IF rc <= 0 THEN NoSSL
  ELSE [present |-> TRUE, rc |-> rc, authorized |-> authorized, shutdown |-> {}]
\* lines 216-217: the session createSSL() returns, with the result of its
\* handshake and of its authorization
Session(rc, authorized) ==
  [present |-> TRUE, rc |-> rc, authorized |-> authorized, shutdown |-> {}]

\* one call of an external primitive
Call(fn, a, b, ret, cat, queueEmpty, errno) ==
  [fn |-> fn, a |-> a, b |-> b, ret |-> ret, cat |-> cat,
   queueEmpty |-> queueEmpty, errno |-> errno]
Prim(fn, ret) == Call(fn, 0, 0, ret, "-", TRUE, "-")

NoAuth == [ran |-> FALSE, raised |-> FALSE, why |-> "", trace |-> <<>>]
NoOp == [op |-> "none", arg |-> 0, err |-> "", ret |-> Uint32(0), calls |-> <<>>]
\* no call of the default manager is under way
NoVerifyCall ==
  [op |-> "none", host |-> <<>>, name |-> <<>>, nameNull |-> FALSE, size |-> 0,
   family |-> "AF_UNSPEC", addr |-> <<>>, data |-> <<>>,
   done |-> FALSE, ret |-> "-", match |-> FALSE]

\* ------------------------------------------------------- AccessManager
\* The decisions one verify() call may return. A caller-supplied manager may
\* answer anything; DefaultClientAccessManager never answers DENY, answers
\* SKIP to verify(sa), and SKIP to verify(host, ...) with an empty host.
AccessVerify(kind, host) ==
  IF access_ = "default"
    THEN IF kind = "addr" THEN {"SKIP"}
         ELSE IF kind \in {"dns", "cn"} /\ host = "" THEN {"SKIP"}
         ELSE {"ALLOW", "SKIP"}
    ELSE Decision

\* ------------------------------------------------ TSSLSocket::authorize
AuthState(decision, host, trace) ==
  [decision |-> decision, host |-> host, trace |-> trace]

Accept(trace) == [ran |-> TRUE, raised |-> FALSE, why |-> "", trace |-> trace]
Raise(why, trace) == [ran |-> TRUE, raised |-> TRUE, why |-> why, trace |-> trace]

\* access_->verify(...): every decision the manager may return, recorded in
\* the trace; hostNow is the value of the local `host` afterwards, hostArg
\* the hostname handed to the manager ("-" when none is).
Consult(st, kind, idx, hostNow, hostArg) ==
  { AuthState(d, hostNow,
              Append(st.trace, [kind |-> kind, idx |-> idx, host |-> hostArg,
                                decision |-> d])) :
      d \in AccessVerify(kind, hostArg) }

\* lines 292-294: the hostname for a GEN_DNS entry
DnsHost(cur) == IF cur = "" THEN (IF server_ THEN peerHost ELSE host_) ELSE cur
\* lines 328-330: the hostname for a commonName entry
CnHost(cur) == IF cur = "" THEN (IF server_ THEN host_ ELSE host_) ELSE cur

\* mutant: the loop over the alternate names does not look at the decision
AltLoopIgnoresDecision(decision, i, count) == i <= count
\* line 283: the loop condition over the alternate names
AltLoopContinues(decision, i, count) == decision = "SKIP" /\ i <= count
\* line 319: the loop condition over the common names
CNLoopContinues(decision) == decision = "SKIP"

RECURSIVE AltLoop(_, _)
AltLoop(i, st) ==
  IF ~AltLoopContinues(st.decision, i, Len(peer.alts)) THEN {st}
  ELSE LET type == peer.alts[i] IN
    IF type = "NULL" THEN AltLoop(i + 1, st)
    ELSE IF type = "GEN_DNS" THEN
      UNION { AltLoop(i + 1, st2) :
                st2 \in Consult(st, "dns", i, DnsHost(st.host), DnsHost(st.host)) }
    ELSE IF type = "GEN_IPADD" THEN
      UNION { AltLoop(i + 1, st2) : st2 \in Consult(st, "ip", i, st.host, "-") }
    ELSE AltLoop(i + 1, st)

RECURSIVE CNLoop(_, _)
CNLoop(i, st) ==
  IF ~CNLoopContinues(st.decision) THEN {st}
  ELSE IF i > Len(peer.cns) THEN {st}
  ELSE IF peer.cns[i] = "NULL" THEN CNLoop(i + 1, st)
  ELSE UNION { CNLoop(i + 1, st2) :
                 st2 \in Consult(st, "cn", i, CnHost(st.host), CnHost(st.host)) }

\* lines 270-276 and 305-311: a non-SKIP decision ends the pass
EarlyVerdict(st, why) ==
  IF st.decision # "ALLOW" THEN Raise(why, st.trace) ELSE Accept(st.trace)
\* mutant: only DENY is refused, an inconclusive pass is accepted
FinalVerdictDenyOnly(st) ==
  IF st.decision = "DENY" THEN Raise("cannot authorize peer", st.trace)
  ELSE Accept(st.trace)
\* lines 335-338
FinalVerdict(st) ==
  IF st.decision # "ALLOW" THEN Raise("cannot authorize peer", st.trace)
  ELSE Accept(st.trace)

\* mutant: a server with a manager accepts a peer without certificate
PreManagerNoServerRule(verifyOK, hasCert, failIfNoPeerCert, server, access) ==
  IF ~verifyOK THEN "SSL_get_verify_result"
  ELSE IF ~hasCert THEN
    IF failIfNoPeerCert THEN "required certificate not present" ELSE "accept"
  ELSE IF access = "NULL" THEN "accept"
  ELSE "consult"

\* lines 235-257: what authorize() decides before it consults the manager
PreManager(verifyOK, hasCert, failIfNoPeerCert, server, access) ==
  IF ~verifyOK THEN "SSL_get_verify_result"
  ELSE IF ~hasCert THEN
    IF failIfNoPeerCert THEN "required certificate not present"
    ELSE IF server /\ access # "NULL" THEN "certificate required for authorization"
    ELSE "accept"
  ELSE IF access = "NULL" THEN "accept"
  ELSE "consult"

AfterAlt(st) ==
  IF st.decision # "SKIP" THEN {EarlyVerdict(st, "access denied")}
  ELSE { FinalVerdict(st2) : st2 \in CNLoop(1, st) }

AfterAddr(st) ==
  IF st.decision # "SKIP"
    THEN {EarlyVerdict(st, "access denied based on remote IP")}
    ELSE UNION { AfterAlt(st2) : st2 \in AltLoop(1, st) }

\* every way authorize() can end for the peer and the manager at hand
Authorize ==
  LET pre == PreManager(peer.verifyOK, peer.hasCert, requireCert, server_, access_) IN
  IF pre = "accept" THEN {Accept(<<>>)}
  ELSE IF pre # "consult" THEN {Raise(pre, <<>>)}
  ELSE UNION { AfterAddr(st) :
                 st \in Consult(AuthState("SKIP", "", <<>>), "addr", 0, "", "-") }

\* ------------------------------------------ TSSLSocket::checkHandshake
\* mutant: the roles are swapped
HandshakePrimitiveSwapped(server) == IF server THEN "SSL_connect" ELSE "SSL_accept"
\* lines 219-223
HandshakePrimitive(server) == IF server THEN "SSL_accept" ELSE "SSL_connect"
HandshakeResults == {-1, 0, 1}

HsOutcome(err, ssl, calls, authRec) ==
  [err |-> err, ssl |-> ssl, calls |-> calls, auth |-> authRec]

\* line 224: rc <= 0 raises
HandshakeFailed(rc) == rc <= 0

CheckHandshake ==
  IF ~tsockOpen THEN {HsOutcome("NOT_OPEN", ssl_, <<>>, NoAuth)}
  ELSE IF ssl_.present THEN {HsOutcome("", ssl_, <<>>, NoAuth)}
  ELSE
    \* ctx_->createSSL() throws when SSL_new returns NULL
    {HsOutcome("TSSLException", NoSSL, <<Prim("SSL_new", 0)>>, NoAuth)}
    \cup
    UNION { LET calls == <<Prim("SSL_new", 1), Prim("SSL_set_fd", 1),
                           Prim(HandshakePrimitive(server_), rc)>> IN
            IF HandshakeFailed(rc)
              THEN {HsOutcome("TSSLException", Session(rc, FALSE), calls, NoAuth)}
              ELSE { HsOutcome(IF a.raised THEN "TSSLException" ELSE "",
                               Session(rc, ~a.raised), calls, a) : a \in Authorize }
          : rc \in HandshakeResults }

\* ------------------------------------------------- TSSLSocket::isOpen
BothShutdown(flags) ==
  "SSL_RECEIVED_SHUTDOWN" \in flags /\ "SSL_SENT_SHUTDOWN" \in flags

\* mutant: either shutdown flag closes the socket
IsOpenOfAnyShutdown(ssl, open) ==
  IF ~ssl.present \/ ~open THEN FALSE
  ELSE IF ssl.shutdown # {} THEN FALSE
  ELSE TRUE

\* lines 96-107
IsOpenOf(ssl, open) ==
  IF ~ssl.present \/ ~open THEN FALSE
  ELSE IF BothShutdown(ssl.shutdown) THEN FALSE
  ELSE TRUE

IsOpen == IsOpenOf(ssl_, tsockOpen)

\* The shutdown flags are the engine's (SSL_get_shutdown, line 100): it sets
\* them when a close_notify or a fatal alert is received or sent, and the read,
\* peek or write that met it returns a result <= 0.
EngineShutdown(ssl, calls) ==
  LET io == SelectSeq(calls, LAMBDA c : c.fn \in {"SSL_read", "SSL_peek", "SSL_write"}) IN
  IF io # <<>> /\ io[Len(io)].ret <= 0
    THEN { [ssl EXCEPT !.shutdown = f] :
             f \in {g \in SUBSET ShutdownFlags : ssl.shutdown \subseteq g} }
    ELSE {ssl}

IsHandshakeCall(c) == c.fn \in {"SSL_accept", "SSL_connect"}

\* the end of one public operation of the socket
Finish(op, arg, err, ret, calls, sslNew, openNew, authRec) ==
  /\ last' = [op |-> op, arg |-> arg, err |-> err, ret |-> Uint32(ret), calls |-> calls]
  /\ ssl_' = sslNew
  /\ tsockOpen' = openNew
  /\ auth' = authRec
  /\ handshakeAttempted' =
       IF op = "close" THEN FALSE
       ELSE handshakeAttempted \/ \E i \in 1..Len(calls) : IsHandshakeCall(calls[i])
  /\ UNCHANGED <<factoryVars, configVars, mintVars, managerVars>>

\* --------------------------------------------------- TSSLSocket::read
\* what one SSL_read(ssl_, buf, len) may return, with the error state it leaves
ReadResults(len) ==
  { Call("SSL_read", 0, len, b, "-", TRUE, "-") : b \in 0..len }
  \cup
  { Call("SSL_read", 0, len, -1, cat, q, e) :
      cat \in {"SSL_ERROR_SYSCALL", "SSL_ERROR_SSL"}, q \in BOOLEAN,
      e \in {"EINTR", "EIO"} }

\* mutant: every system-call failure is retried
RetryableAnySyscall(c) == c.cat = "SSL_ERROR_SYSCALL"
\* lines 163-166: the one failure read() retries
Retryable(c) ==
  c.cat = "SSL_ERROR_SYSCALL" /\ c.queueEmpty /\ c.errno = "EINTR"

IoOutcome(err, ret, calls) == [err |-> err, ret |-> ret, calls |-> calls]

\* lines 157-172: the retry loop, from iteration `retries` with `bytes` so far
RECURSIVE ReadLoop(_, _, _, _)
ReadLoop(retries, bytes, len, calls) ==
  IF ~(retries < maxRecvRetries_) THEN {IoOutcome("", bytes, calls)}
  ELSE UNION { LET cs == Append(calls, c) IN
               IF c.ret >= 0 THEN {IoOutcome("", c.ret, cs)}
               ELSE IF Retryable(c) THEN ReadLoop(retries + 1, c.ret, len, cs)
               ELSE {IoOutcome("TSSLException", 0, cs)}
             : c \in ReadResults(len) }

Read ==
  \E len \in 0..MaxLen, h \in CheckHandshake :
    IF h.err # ""
      THEN Finish("read", len, h.err, 0, h.calls, h.ssl, tsockOpen, h.auth)
      ELSE \E r \in ReadLoop(0, 0, len, <<>>) :
           \E s2 \in EngineShutdown(h.ssl, r.calls) :
             Finish("read", len, r.err, r.ret, h.calls \o r.calls, s2, tsockOpen, h.auth)

\* -------------------------------------------------- TSSLSocket::write
\* mutant: every call is handed the whole length again
WriteRemainingWhole(written, len) == len
\* line 180: the number of bytes handed to SSL_write
WriteRemaining(written, len) == len - written

\* lines 178-188: the loop over partial writes, `written` bytes sent so far;
\* SSL_write returns at most the number of bytes it was handed
RECURSIVE WriteLoop(_, _, _)
WriteLoop(written, len, calls) ==
  IF ~(written < len) THEN {IoOutcome("", 0, calls)}
  ELSE UNION { LET cs == Append(calls, Call("SSL_write", written,
                                            WriteRemaining(written, len),
                                            bytes, "-", TRUE, "-")) IN
               IF bytes <= 0 THEN {IoOutcome("TSSLException", 0, cs)}
               ELSE WriteLoop(written + bytes, len, cs)
             : bytes \in -1..WriteRemaining(written, len) }

Write ==
  \E len \in 0..MaxLen, h \in CheckHandshake :
    IF h.err # ""
      THEN Finish("write", len, h.err, 0, h.calls, h.ssl, tsockOpen, h.auth)
      ELSE \E w \in WriteLoop(0, len, <<>>) :
           \E s2 \in EngineShutdown(h.ssl, w.calls) :
             Finish("write", len, w.err, 0, h.calls \o w.calls, s2, tsockOpen, h.auth)

\* --------------------------------------------------- TSSLSocket::peek
Peek ==
  IF ~IsOpen
    THEN Finish("peek", 0, "", 0, <<>>, ssl_, tsockOpen, NoAuth)
    ELSE \E h \in CheckHandshake :
      IF h.err # ""
        THEN Finish("peek", 0, h.err, 0, h.calls, h.ssl, tsockOpen, h.auth)
        ELSE \E rc \in {-1, 0, 1} :
             LET calls == <<Prim("SSL_peek", rc)>>
                          \o (IF rc = 0 THEN <<Prim("ERR_clear_error", 0)>> ELSE <<>>) IN
             \E s2 \in EngineShutdown(h.ssl, calls) :
               Finish("peek", 0, IF rc < 0 THEN "TSSLException" ELSE "",
                      IF rc > 0 THEN 1 ELSE 0, h.calls \o calls, s2, tsockOpen, h.auth)

\* -------------------------------------------------- TSSLSocket::flush
Flush ==
  IF ~ssl_.present
    THEN Finish("flush", 0, "", 0, <<>>, ssl_, tsockOpen, NoAuth)
    ELSE \E h \in CheckHandshake :
      IF h.err # ""
        THEN Finish("flush", 0, h.err, 0, h.calls, h.ssl, tsockOpen, h.auth)
        ELSE \E bio \in BOOLEAN, rc \in {0, 1} :
             LET calls == <<Prim("SSL_get_wbio", IF bio THEN 1 ELSE 0)>>
                          \o (IF bio THEN <<Prim("BIO_flush", rc)>> ELSE <<>>) IN
             Finish("flush", 0, IF ~bio \/ rc # 1 THEN "TSSLException" ELSE "",
                    0, h.calls \o calls, h.ssl, tsockOpen, h.auth)

\* --------------------------------------------------- TSSLSocket::open
\* line 130: the guard of open()
OpenRejected(isOpen, server) == isOpen \/ server

\* TSocket::open() connects, or throws and leaves the transport closed
Open ==
  IF OpenRejected(IsOpen, server_)
    THEN Finish("open", 0, "BAD_ARGS", 0, <<>>, ssl_, tsockOpen, NoAuth)
    ELSE \E ok \in BOOLEAN :
      Finish("open", 0, IF ok THEN "" ELSE "NOT_OPEN", 0,
             <<Prim("TSocket::open", IF ok THEN 1 ELSE 0)>>, ssl_, ok, NoAuth)

\* -------------------------------------------------- TSSLSocket::close
\* mutant: SSL_shutdown is called a second time whatever the first call returned
ShutdownCallsAlwaysTwice ==
  { <<Prim("SSL_shutdown", rc1), Prim("SSL_shutdown", rc2)>> :
      rc1 \in {-1, 0, 1}, rc2 \in {-1, 0, 1} }
\* lines 138-141: SSL_shutdown, called again when the first call returned 0
ShutdownCalls ==
  { <<Prim("SSL_shutdown", rc)>> : rc \in {-1, 1} }
  \cup { <<Prim("SSL_shutdown", 0), Prim("SSL_shutdown", rc)>> : rc \in {-1, 0, 1} }

Close ==
  IF ssl_.present
    THEN \E sd \in ShutdownCalls :
      Finish("close", 0, "", 0,
             sd \o <<Prim("SSL_free", 0), Prim("TSocket::close", 0)>>,
             NoSSL, FALSE, NoAuth)
    ELSE Finish("close", 0, "", 0, <<Prim("TSocket::close", 0)>>, NoSSL, FALSE, NoAuth)

\* isOpen() called by the user of the socket
IsOpenCall ==
  Finish("isOpen", 0, "", IF IsOpen THEN 1 ELSE 0, <<>>, ssl_, tsockOpen, NoAuth)

\* checkHandshake() on its own (protected: a subclass or a friend calls it)
CheckHandshakeCall ==
  \E h \in CheckHandshake :
    Finish("checkHandshake", 0, h.err, 0, h.calls, h.ssl, tsockOpen, h.auth)

\* ------------------------------------------------------ initial states
Threads == 1..NumThreads

\* one factory constructed by thread 1: the engine is up
FactoryLive ==
  /\ initialized = TRUE
  /\ count_ = 1
  /\ mutex_ = 0
  /\ mutexes = TRUE
  /\ fpc = [t \in Threads |-> IF t = 1 THEN "live" ELSE "idle"]
  /\ cycles = [t \in Threads |-> IF t = 1 THEN 1 ELSE 0]
  /\ engineOp = [op |-> "none", by |-> 0, wasInitialized |-> FALSE, count |-> 0]
  /\ ctorFailed = FALSE
  /\ factoryServer_ = [t \in Threads |-> FALSE]
  /\ factoryAccess_ = [t \in Threads |-> "NULL"]

\* what a peer may present: the chain-verification result and a certificate
Peers(maxAlt, maxCN) ==
  { [verifyOK |-> v, hasCert |-> FALSE, alts |-> <<>>, cns |-> <<>>] : v \in BOOLEAN }
  \cup
  { [verifyOK |-> v, hasCert |-> TRUE, alts |-> a, cns |-> c] :
      v \in BOOLEAN, a \in SeqsUpTo(AltTypes, maxAlt), c \in SeqsUpTo(CNEntries, maxCN) }

FreshSocket ==
  /\ ssl_ = NoSSL
  /\ handshakeAttempted = FALSE
  /\ last = NoOp
  /\ auth = NoAuth

\* the peers a socket of SpecSocket meets: one without certificate, one with a
\* certificate that carries a DNS name and a common name
SocketPeers ==
  { [verifyOK |-> TRUE, hasCert |-> FALSE, alts |-> <<>>, cns |-> <<>>],
    [verifyOK |-> TRUE, hasCert |-> TRUE, alts |-> <<"GEN_DNS">>, cns |-> <<"CN">>] }

\* the socket as a factory mints it, before any I/O: a server socket wraps an
\* accepted connection, a client socket has yet to dial
InitSocket ==
  /\ FactoryLive
  /\ FreshSocket
  /\ verifyCall = NoVerifyCall
  /\ server_ \in BOOLEAN
  /\ access_ \in {"NULL", "custom"}
  /\ tsockOpen = server_
  /\ maxRecvRetries_ \in 0..MaxRetries
  /\ host_ = "h"
  /\ peerHost = "p"
  /\ requireCert = FALSE
  /\ peer \in SocketPeers

NextSocket ==
  \/ Open
  \/ Read
  \/ Write
  \/ Peek
  \/ Flush
  \/ Close
  \/ IsOpenCall

SpecSocket == InitSocket /\ [][NextSocket]_vars

\* the socket connected and without a session, for every peer and manager
InitAuthorize ==
  /\ FactoryLive
  /\ FreshSocket
  /\ verifyCall = NoVerifyCall
  /\ server_ \in BOOLEAN
  /\ access_ \in AccessKinds
  /\ tsockOpen = TRUE
  /\ maxRecvRetries_ = MaxRetries
  /\ host_ \in {"", "h"}
  /\ peerHost \in {"", "p"}
  /\ requireCert \in BOOLEAN
  /\ peer \in Peers(MaxAlt, MaxCN)

NextAuthorize == CheckHandshakeCall

SpecAuthorize == InitAuthorize /\ [][NextAuthorize]_vars

\* ---------------------------------------- TSSLSocketFactory: the engine
NoEngineOp == [op |-> "none", by |-> 0, wasInitialized |-> FALSE, count |-> 0]
EngineOp(op, t) ==
  [op |-> op, by |-> t, wasInitialized |-> initialized, count |-> count_]

\* a socket nobody has minted yet
NoSocket ==
  /\ FreshSocket
  /\ server_ = FALSE
  /\ access_ = "NULL"
  /\ tsockOpen = FALSE
  /\ maxRecvRetries_ = 0
  /\ host_ = ""
  /\ peerHost = ""
  /\ requireCert = FALSE
  /\ peer = [verifyOK |-> TRUE, hasCert |-> FALSE, alts |-> <<>>, cns |-> <<>>]

socketVars == <<configVars, sockVars>>

\* Guard guard(mutex_), lines 347 and 357: the thread waits for the mutex
MutexFree == mutex_ = 0

\* line 348: the constructor initializes the engine when no factory exists
InitDue(count) == count = 0
\* mutant: the destructor tears the engine down whatever the count
CleanupDueAlways(count) == TRUE
\* line 359: the destructor tears the engine down when the last factory goes
CleanupDue(count) == count = 0

\* TSSLSocketFactory::TSSLSocketFactory(), lines 346-347: the members are
\* initialized (server_(false), access_ empty), then the guard takes the mutex
CtorLock(t) ==
  /\ fpc[t] = "idle"
  /\ cycles[t] < MaxCycles
  /\ MutexFree
  /\ mutex_' = t
  /\ fpc' = [fpc EXCEPT ![t] = "ctor_init"]
  /\ cycles' = [cycles EXCEPT ![t] = @ + 1]
  /\ engineOp' = NoEngineOp
  /\ factoryServer_' = [factoryServer_ EXCEPT ![t] = FALSE]
  /\ factoryAccess_' = [factoryAccess_ EXCEPT ![t] = "NULL"]
  /\ UNCHANGED <<initialized, count_, mutexes, ctorFailed, socketVars, managerVars>>

\* lines 348-351 with initializeOpenSSL(), lines 520-542: the lock table is
\* allocated and the callbacks are installed, or the allocation throws after
\* `initialized = true` and the guard releases the mutex
CtorInit(t) ==
  /\ fpc[t] = "ctor_init"
  /\ mutex_ = t
  /\ IF ~InitDue(count_)
       THEN /\ fpc' = [fpc EXCEPT ![t] = "ctor_count"]
            /\ engineOp' = NoEngineOp
            /\ UNCHANGED <<initialized, mutexes, mutex_, ctorFailed>>
       ELSE IF initialized
         THEN /\ fpc' = [fpc EXCEPT ![t] = "ctor_count"]
              /\ engineOp' = EngineOp("initializeOpenSSL", t)
              /\ UNCHANGED <<initialized, mutexes, mutex_, ctorFailed>>
         ELSE /\ initialized' = TRUE
              /\ engineOp' = EngineOp("initializeOpenSSL", t)
              /\ \/ /\ mutexes' = TRUE
                    /\ fpc' = [fpc EXCEPT ![t] = "ctor_count"]
                    /\ UNCHANGED <<mutex_, ctorFailed>>
                 \/ /\ mutexes' = FALSE
                    /\ fpc' = [fpc EXCEPT ![t] = "idle"]
                    /\ mutex_' = 0
                    /\ ctorFailed' = TRUE
  /\ UNCHANGED <<count_, cycles, socketVars, mintVars, managerVars>>

\* line 352
CtorCount(t) ==
  /\ fpc[t] = "ctor_count"
  /\ mutex_ = t
  /\ count_' = count_ + 1
  /\ fpc' = [fpc EXCEPT ![t] = "ctor_ctx"]
  /\ engineOp' = NoEngineOp
  /\ UNCHANGED <<initialized, mutexes, mutex_, cycles, ctorFailed, socketVars, mintVars, managerVars>>

\* line 353 with SSLContext::SSLContext(), lines 52-60: SSL_CTX_new succeeds,
\* or the constructor throws and the factory is never constructed
CtorCtx(t) ==
  /\ fpc[t] = "ctor_ctx"
  /\ mutex_ = t
  /\ mutex_' = 0
  /\ engineOp' = NoEngineOp
  /\ \/ /\ fpc' = [fpc EXCEPT ![t] = "live"]
        /\ UNCHANGED ctorFailed
     \/ /\ fpc' = [fpc EXCEPT ![t] = "idle"]
        /\ ctorFailed' = TRUE
  /\ UNCHANGED <<initialized, count_, mutexes, cycles, socketVars, mintVars, managerVars>>

\* TSSLSocketFactory::~TSSLSocketFactory(), line 357
DtorLock(t) ==
  /\ fpc[t] = "live"
  /\ MutexFree
  /\ mutex_' = t
  /\ fpc' = [fpc EXCEPT ![t] = "dtor_count"]
  /\ engineOp' = NoEngineOp
  /\ UNCHANGED <<initialized, count_, mutexes, cycles, ctorFailed, socketVars, mintVars, managerVars>>

\* line 358
DtorCount(t) ==
  /\ fpc[t] = "dtor_count"
  /\ mutex_ = t
  /\ count_' = count_ - 1
  /\ fpc' = [fpc EXCEPT ![t] = "dtor_cleanup"]
  /\ engineOp' = NoEngineOp
  /\ UNCHANGED <<initialized, mutexes, mutex_, cycles, ctorFailed, socketVars, mintVars, managerVars>>

\* lines 359-361 with cleanupOpenSSL(), lines 544-561
DtorCleanup(t) ==
  /\ fpc[t] = "dtor_cleanup"
  /\ mutex_ = t
  /\ mutex_' = 0
  /\ fpc' = [fpc EXCEPT ![t] = "idle"]
  /\ IF ~CleanupDue(count_)
       THEN /\ engineOp' = NoEngineOp
            /\ UNCHANGED <<initialized, mutexes>>
       ELSE /\ engineOp' = EngineOp("cleanupOpenSSL", t)
            /\ IF ~initialized
                 THEN UNCHANGED <<initialized, mutexes>>
                 ELSE /\ initialized' = FALSE
                      /\ mutexes' = FALSE
  /\ UNCHANGED <<count_, cycles, ctorFailed, socketVars, mintVars, managerVars>>

\* lines 342-344: no factory has been constructed
NoFactory ==
  /\ initialized = FALSE
  /\ count_ = 0
  /\ mutex_ = 0
  /\ mutexes = FALSE
  /\ fpc = [t \in Threads |-> "idle"]
  /\ cycles = [t \in Threads |-> 0]
  /\ engineOp = NoEngineOp
  /\ ctorFailed = FALSE
  /\ factoryServer_ = [t \in Threads |-> FALSE]
  /\ factoryAccess_ = [t \in Threads |-> "NULL"]

InitFactory ==
  /\ NoFactory
  /\ verifyCall = NoVerifyCall
  /\ NoSocket

NextFactory ==
  \E t \in Threads :
    \/ CtorLock(t)
    \/ CtorInit(t)
    \/ CtorCount(t)
    \/ CtorCtx(t)
    \/ DtorLock(t)
    \/ DtorCount(t)
    \/ DtorCleanup(t)

SpecFactory == InitFactory /\ [][NextFactory]_vars

\* ------------------------------------------------ matchName, uppercase
\* characters are their codes as (signed) char
NUL == 0
Dot == 46
Star == 42
Bytes == -128..127

\* mutant: the identity (the comparison becomes case-sensitive)
UppercaseIdentity(c) == c
\* lines 653-658
uppercase(c) == IF 97 <= c /\ c <= 122 THEN c + (65 - 97) ELSE c

\* host[j] of the NUL-terminated host, j counted from 0
HostAt(host, j) == IF j < Len(host) THEN host[j + 1] ELSE NUL
\* pattern[i], i counted from 0
PatternAt(pattern, i) == pattern[i + 1]

\* mutant: the wildcard runs to the end of the hostname
SkipLabelToEnd(host, j) == Len(host)
\* lines 636-638: j after the wildcard has run to the next '.' or to the end
RECURSIVE SkipLabel(_, _)
SkipLabel(host, j) ==
  IF HostAt(host, j) # Dot /\ HostAt(host, j) # NUL THEN SkipLabel(host, j + 1) ELSE j

\* lines 629-643: the loop, from pattern index i and host index j to the
\* indices it ends with
RECURSIVE MatchLoop(_, _, _, _, _)
MatchLoop(host, pattern, size, i, j) ==
  IF ~(i < size /\ HostAt(host, j) # NUL) THEN [i |-> i, j |-> j]
  ELSE IF uppercase(PatternAt(pattern, i)) = uppercase(HostAt(host, j))
    THEN MatchLoop(host, pattern, size, i + 1, j + 1)
  ELSE IF PatternAt(pattern, i) = Star
    THEN MatchLoop(host, pattern, size, i + 1, SkipLabel(host, j))
  ELSE [i |-> i, j |-> j]

\* lines 626-649
matchName(host, pattern, size) ==
  LET end == MatchLoop(host, pattern, size, 0, 0) IN
  end.i = size /\ HostAt(host, end.j) = NUL

\* ------------------------------------------ DefaultClientAccessManager
SizeofInAddr == 4
SizeofIn6Addr == 16

\* memcmp(a, b, n) == 0
MemEqual(a, b, n) == \A k \in 1..n : a[k] = b[k]

\* lines 593-594: verify(sa)
VerifyAddr(family, addr) == "SKIP"

\* mutant: a hostname that does not match is denied
VerifyHostDenies(host, nameNull, name, size) ==
  IF host = <<>> \/ nameNull \/ size <= 0 THEN "SKIP"
  ELSE IF matchName(host, name, size) THEN "ALLOW" ELSE "DENY"
\* lines 596-603: verify(host, name, size)
VerifyHost(host, nameNull, name, size) ==
  IF host = <<>> \/ nameNull \/ size <= 0 THEN "SKIP"
  ELSE IF matchName(host, name, size) THEN "ALLOW" ELSE "SKIP"

\* lines 605-615: verify(sa, data, size)
VerifyPattern(family, addr, data, size) ==
  LET match ==
        IF family = "AF_INET" /\ size = SizeofInAddr THEN MemEqual(addr, data, size)
        ELSE IF family = "AF_INET6" /\ size = SizeofIn6Addr THEN MemEqual(addr, data, size)
        ELSE FALSE IN
  IF match THEN "ALLOW" ELSE "SKIP"

\* the call under way returns
Return(ret, match) ==
  /\ ~verifyCall.done
  /\ verifyCall' = [verifyCall EXCEPT !.done = TRUE, !.ret = ret, !.match = match]
  /\ UNCHANGED <<factoryVars, socketVars, mintVars>>

MatchNameCall ==
  /\ verifyCall.op = "matchName"
  /\ Return("-", matchName(verifyCall.host, verifyCall.name, verifyCall.size))

VerifyAddrCall ==
  /\ verifyCall.op = "verify(sa)"
  /\ Return(VerifyAddr(verifyCall.family, verifyCall.addr), FALSE)

VerifyHostCall ==
  /\ verifyCall.op = "verify(host, name, size)"
  /\ Return(VerifyHost(verifyCall.host, verifyCall.nameNull, verifyCall.name,
                       verifyCall.size), FALSE)

VerifyPatternCall ==
  /\ verifyCall.op = "verify(sa, data, size)"
  /\ Return(VerifyPattern(verifyCall.family, verifyCall.addr, verifyCall.data,
                          verifyCall.size), FALSE)

\* the hostnames and the patterns of the calls: 'a', 'B', '.' and 'A', '.', '*'
HostChars == {97, 66, Dot}
PatChars == {65, Dot, Star}
Hosts == SeqsUpTo(HostChars, MaxHostLen)
Patterns == SeqsUpTo(PatChars, MaxPatLen)

\* the peer address of a family, and the byte strings compared with it: the
\* same bytes, or the same but for the byte at position k
Families == {"AF_INET", "AF_INET6", "AF_UNSPEC"}
AddrLen(family) ==
  IF family = "AF_INET" THEN SizeofInAddr
  ELSE IF family = "AF_INET6" THEN SizeofIn6Addr ELSE 0
AddrOf(family) == [k \in 1..AddrLen(family) |-> 1]
DataSizes == {0, SizeofInAddr - 1, SizeofInAddr, SizeofIn6Addr}
DataOf(size, k) == [m \in 1..size |-> IF m = k THEN 2 ELSE 1]

HostCall(op, host, nameNull, name) ==
  [NoVerifyCall EXCEPT !.op = op, !.host = host, !.nameNull = nameNull,
                       !.name = name, !.size = Len(name)]
AddrCall(op, family, data) ==
  [NoVerifyCall EXCEPT !.op = op, !.family = family, !.addr = AddrOf(family),
                       !.data = data, !.size = Len(data)]

\* one call, with its arguments
InitManager ==
  /\ NoFactory
  /\ NoSocket
  /\ \/ \E op \in {"matchName", "verify(host, name, size)"}, h \in Hosts, p \in Patterns :
          verifyCall = HostCall(op, h, FALSE, p)
     \/ \E h \in Hosts : verifyCall = HostCall("verify(host, name, size)", h, TRUE, <<>>)
     \/ \E f \in Families : verifyCall = AddrCall("verify(sa)", f, <<>>)
     \/ \E f \in Families, n \in DataSizes : \E k \in 0..n :
          verifyCall = AddrCall("verify(sa, data, size)", f, DataOf(n, k))

NextManager ==
  \/ MatchNameCall
  \/ VerifyAddrCall
  \/ VerifyHostCall
  \/ VerifyPatternCall

SpecManager == InitManager /\ [][NextManager]_vars

\* ------------------------------- TSSLSocketFactory: minting the sockets
\* TSSLSocketFactory::server(bool): the role of the sockets minted from now on
SetServer(t) ==
  /\ fpc[t] = "live"
  /\ \E flag \in BOOLEAN : factoryServer_' = [factoryServer_ EXCEPT ![t] = flag]
  /\ UNCHANGED <<factoryVars, socketVars, factoryAccess_, managerVars>>

\* TSSLSocketFactory::access(manager): the caller sets a manager of its own
SetAccess(t) ==
  /\ fpc[t] = "live"
  /\ factoryAccess_' = [factoryAccess_ EXCEPT ![t] = "custom"]
  /\ UNCHANGED <<factoryVars, socketVars, factoryServer_, managerVars>>

\* lines 385-387: the manager of the factory once setup() has run
SetupAccess(access, server) ==
  IF access = "NULL" /\ ~server THEN "default" ELSE access

\* createSocket(int socket), lines 370-374, with setup(), lines 383-391: a new
\* socket on a connected descriptor; the model follows one socket at a time,
\* the one before it has been closed (~TSSLSocket, line 93)
CreateSocket(t) ==
  /\ fpc[t] = "live"
  /\ ~tsockOpen
  /\ ~ssl_.present
  /\ server_' = factoryServer_[t]
  /\ factoryAccess_' =
       [factoryAccess_ EXCEPT ![t] = SetupAccess(factoryAccess_[t], factoryServer_[t])]
  /\ access_' = factoryAccess_'[t]
  /\ tsockOpen' = TRUE
  /\ ssl_' = NoSSL
  /\ handshakeAttempted' = FALSE
  /\ auth' = NoAuth
  /\ last' = [op |-> "createSocket", arg |-> t, err |-> "", ret |-> Uint32(0),
              calls |-> <<>>]
  /\ maxRecvRetries_' = MaxRetries
  /\ host_' = "h"
  /\ peerHost' = "p"
  /\ \E p \in SocketPeers : peer' = p
  /\ UNCHANGED <<factoryVars, requireCert, factoryServer_, managerVars>>

Minted == last.op # "none"

NextMint ==
  \/ NextFactory
  \/ \E t \in Threads : SetServer(t) \/ SetAccess(t) \/ CreateSocket(t)
  \/ (Minted /\ CheckHandshakeCall)
  \/ (Minted /\ Close)

SpecMint == InitFactory /\ [][NextMint]_vars

\* ======================================================================
\* Claims
\* ======================================================================

\* a factory that is constructed and whose destructor has not yet
\* decremented count_
LiveFactory(t) == fpc[t] \in {"live", "dtor_count"}
\* a factory whose construction or destruction holds a count
CountedFactory(t) == fpc[t] \in {"ctor_ctx", "live", "dtor_count"}

\* C1: while every construction succeeds, for every interleaving of the
\* threads: initializeOpenSSL runs only with count_ = 0 and the engine not yet
\* initialized; cleanupOpenSSL runs only on an initialized engine, with count_
\* back at 0 and no constructed, not yet destroyed factory; every live factory
\* sees the engine initialized with its lock table; count_ is the number of
\* factories; once every factory is destroyed the engine is uninitialized and
\* count_ = 0.
C1_BalancedLifecycle ==
  ~ctorFailed =>
    /\ engineOp.op = "initializeOpenSSL" =>
         /\ ~engineOp.wasInitialized
         /\ engineOp.count = 0
    /\ engineOp.op = "cleanupOpenSSL" =>
         /\ engineOp.wasInitialized
         /\ engineOp.count = 0
         /\ \A u \in Threads : ~LiveFactory(u)
    /\ \A t \in Threads : LiveFactory(t) => initialized /\ mutexes
    /\ count_ = Cardinality({t \in Threads : CountedFactory(t)})
    /\ (\A t \in Threads : fpc[t] = "idle") => ~initialized /\ count_ = 0

\* every thread has constructed and destroyed a factory, and the last
\* destruction has just torn the engine down
C1_Witness ==
  /\ ~ctorFailed
  /\ \A t \in Threads : fpc[t] = "idle" /\ cycles[t] >= 1
  /\ engineOp.op = "cleanupOpenSSL"
  /\ engineOp.wasInitialized

CallsOf(calls, fns) == {i \in 1..Len(calls) : calls[i].fn \in fns}
SessionUsable == ssl_.present /\ ssl_.rc > 0 /\ ssl_.authorized

\* C2: a read, write or peek on a socket whose handshake failed or whose
\* authorization was refused raises and calls no SSL_read / SSL_write /
\* SSL_peek: no I/O primitive is invoked on a session that is not usable.
C2_FailedHandshakeUnusable ==
  (last.op \in {"read", "write", "peek"} /\ ssl_.present /\ ~SessionUsable) =>
    /\ last.err # ""
    /\ CallsOf(last.calls, {"SSL_read", "SSL_write", "SSL_peek"}) = {}

\* the authorization pass reached the Access Manager
ManagerConsulted ==
  auth.ran /\ peer.verifyOK /\ peer.hasCert /\ access_ # "NULL"

\* C3: with a certificate and a manager, authorize() returns normally only if
\* the last decision of the manager is ALLOW; it raises when any decision is
\* DENY and when every decision is SKIP (also with no name to check at all).
C3_DefaultDeny ==
  ManagerConsulted =>
    LET tr == auth.trace IN
    /\ Len(tr) >= 1
    /\ ~auth.raised => tr[Len(tr)].decision = "ALLOW"
    /\ (\E i \in 1..Len(tr) : tr[i].decision = "DENY") => auth.raised
    /\ (\A i \in 1..Len(tr) : tr[i].decision = "SKIP") => auth.raised

\* accepted on the third source, after two SKIPs
C3_Witness ==
  /\ ManagerConsulted
  /\ ~auth.raised
  /\ Len(auth.trace) >= 3

\* the identity sources of the peer certificate, in the order of the claim
RECURSIVE AltSources(_)
AltSources(i) ==
  IF i > Len(peer.alts) THEN <<>>
  ELSE (IF peer.alts[i] = "GEN_DNS" THEN <<[kind |-> "dns", idx |-> i]>>
        ELSE IF peer.alts[i] = "GEN_IPADD" THEN <<[kind |-> "ip", idx |-> i]>>
        ELSE <<>>) \o AltSources(i + 1)
RECURSIVE CNSources(_)
CNSources(i) ==
  IF i > Len(peer.cns) THEN <<>>
  ELSE (IF peer.cns[i] = "CN" THEN <<[kind |-> "cn", idx |-> i]>> ELSE <<>>)
       \o CNSources(i + 1)
IdentitySources == <<[kind |-> "addr", idx |-> 0]>> \o AltSources(1) \o CNSources(1)

\* C4: the manager is consulted on the peer address, then on the alternate
\* names in list order, then on the common names in certificate order; every
\* call but the last returned SKIP, and the pass stops short of a source only
\* after a decision that is not SKIP.
C4_OrderedShortCircuit ==
  ManagerConsulted =>
    LET tr == auth.trace
        src == IdentitySources IN
    /\ Len(tr) >= 1
    /\ Len(tr) <= Len(src)
    /\ \A i \in 1..Len(tr) :
         /\ tr[i].kind = src[i].kind
         /\ tr[i].idx = src[i].idx
         /\ i < Len(tr) => tr[i].decision = "SKIP"
    /\ tr[Len(tr)].decision = "SKIP" => Len(tr) = Len(src)

\* an alternate name decided while a later source was left unconsulted
C4_Witness ==
  /\ ManagerConsulted
  /\ Len(auth.trace) >= 2
  /\ auth.trace[Len(auth.trace)].kind \in {"dns", "ip"}
  /\ auth.trace[Len(auth.trace)].decision # "SKIP"
  /\ Len(auth.trace) < Len(IdentitySources)

ConnectedNoSession == tsockOpen /\ ~ssl_.present
HandshakeDone(calls, server) ==
  /\ CallsOf(calls, {IF server THEN "SSL_accept" ELSE "SSL_connect"}) # {}
  /\ CallsOf(calls, {IF server THEN "SSL_connect" ELSE "SSL_accept"}) = {}
SslCalls(calls) == {i \in 1..Len(calls) : calls[i].fn # "TSocket::open"}

\* open() creates no session and calls nothing of the engine
OpenIsNotEager ==
  last'.op = "open" => ssl_' = ssl_ /\ SslCalls(last'.calls) = {} /\ ~auth'.ran
\* the operation made on a connected socket without a session asks for a
\* session, and with it performs the handshake of the role, then authorize()
TriggersHandshake ==
  /\ CallsOf(last'.calls, {"SSL_new"}) # {}
  /\ ssl_'.present => HandshakeDone(last'.calls, server_)
  /\ (ssl_'.present /\ ssl_'.rc > 0) => auth'.ran

\* C5 as stated: open() never creates a session, and on a connected socket
\* without a session the first read, write, peek or flush creates the session
\* and performs the handshake of the role followed by authorization.
C5_AnyFirstIoTriggersHandshake ==
  [][ /\ OpenIsNotEager
      /\ (ConnectedNoSession /\ last'.op \in {"read", "write", "peek", "flush"})
           => TriggersHandshake ]_vars

\* C5 amended: open() never creates a session; on a connected socket without a
\* session read and write create the session and perform the handshake of the
\* role followed by authorization, while peek and flush return normally
\* without creating a session or calling the engine.
C5_ReadWriteTriggerHandshake ==
  [][ /\ OpenIsNotEager
      /\ (ConnectedNoSession /\ last'.op \in {"read", "write"}) => TriggersHandshake
      /\ (~ssl_.present /\ last'.op \in {"peek", "flush"}) =>
           /\ last'.err = ""
           /\ last'.calls = <<>>
           /\ ~ssl_'.present ]_vars

\* a read on a server socket performed the handshake and the authorization
C5_Witness ==
  /\ last.op = "read"
  /\ server_
  /\ CallsOf(last.calls, {"SSL_accept"}) # {}
  /\ ssl_.present
  /\ auth.ran

IsOpenReturned == last.op = "isOpen" /\ last.ret = Uint32(1)

\* C6 as stated: isOpen() returns true only when the connection is open, a
\* session exists and neither shutdown flag is set.
C6_OpenOnlyWithNoShutdownFlag ==
  IsOpenReturned => tsockOpen /\ ssl_.present /\ ssl_.shutdown = {}

\* C6 amended: isOpen() returns true exactly when the connection is open, a
\* session exists and the shutdown-sent and shutdown-received flags are not
\* both set (a session with exactly one of them set is reported as open).
C6_OpenUnlessBothShutdown ==
  last.op = "isOpen" =>
    (last.ret = Uint32(1) <=>
       /\ tsockOpen
       /\ ssl_.present
       /\ ~(/\ "SSL_SENT_SHUTDOWN" \in ssl_.shutdown
            /\ "SSL_RECEIVED_SHUTDOWN" \in ssl_.shutdown))

\* isOpen() answered true on a session with exactly one shutdown flag
C6_Witness ==
  /\ IsOpenReturned
  /\ Cardinality(ssl_.shutdown) = 1

\* C7: open() on a socket whose connection is open (with or without a session)
\* or whose role is server raises BAD_ARGS, calls no TSocket::open and changes
\* nothing; a closed client socket delegates to TSocket::open.
C7_OpenRejectedWhenConnected ==
  [][ last'.op = "open" =>
        IF tsockOpen \/ server_
          THEN /\ last'.err = "BAD_ARGS"
               /\ last'.calls = <<>>
               /\ UNCHANGED <<ssl_, tsockOpen, handshakeAttempted>>
          ELSE CallsOf(last'.calls, {"TSocket::open"}) # {} ]_vars

\* C8: a session is present exactly when a handshake primitive was called
\* since the socket was created or last closed.
C8_SessionIffHandshakeAttempted == ssl_.present <=> handshakeAttempted

\* the session of a failed handshake is still there
C8_Witness ==
  /\ ssl_.present
  /\ ssl_.rc <= 0
  /\ handshakeAttempted
  /\ last.err # ""

\* C9: authorize() raises without a manager call when the chain verification
\* failed; with no certificate it raises when a certificate is required or when
\* a server has a manager, and accepts otherwise, never calling the manager;
\* with a certificate and no manager it accepts.
C9_PreManagerDecisions ==
  auth.ran =>
    IF ~peer.verifyOK THEN auth.raised /\ auth.trace = <<>>
    ELSE IF ~peer.hasCert
      THEN /\ auth.trace = <<>>
           /\ auth.raised <=> (requireCert \/ (server_ /\ access_ # "NULL"))
    ELSE access_ = "NULL" => ~auth.raised /\ auth.trace = <<>>

\* a server with a manager refused a peer that presented no certificate,
\* although the context did not require one
C9_Witness ==
  /\ auth.ran
  /\ auth.raised
  /\ peer.verifyOK
  /\ ~peer.hasCert
  /\ ~requireCert
  /\ server_
  /\ access_ # "NULL"

ReadCalls == SelectSeq(last.calls, LAMBDA c : c.fn = "SSL_read")
Interrupted(c) ==
  c.ret < 0 /\ c.cat = "SSL_ERROR_SYSCALL" /\ c.queueEmpty /\ c.errno = "EINTR"

\* C10: read() calls SSL_read again only after a negative result of category
\* system call, with an empty error queue and errno EINTR; any other negative
\* result raises at once and a non-negative result is returned at once.
C10_ReadRetriesOnlyInterrupted ==
  last.op = "read" =>
    LET rc == ReadCalls
        n == Len(rc) IN
    /\ \A i \in 1..(n - 1) : Interrupted(rc[i])
    /\ (n >= 1 /\ rc[n].ret >= 0) => last.err = "" /\ last.ret = Uint32(rc[n].ret)
    /\ (n >= 1 /\ rc[n].ret < 0 /\ ~Interrupted(rc[n])) => last.err = "TSSLException"

\* a read that was interrupted once and then failed for good
C10_Witness ==
  /\ last.op = "read"
  /\ Len(ReadCalls) >= 2
  /\ Interrupted(ReadCalls[1])
  /\ ReadCalls[Len(ReadCalls)].ret < 0
  /\ ~Interrupted(ReadCalls[Len(ReadCalls)])
  /\ last.err = "TSSLException"

WriteCalls == SelectSeq(last.calls, LAMBDA c : c.fn = "SSL_write")
RECURSIVE SumRet(_, _)
SumRet(calls, n) == IF n = 0 THEN 0 ELSE SumRet(calls, n - 1) + calls[n].ret
\* the write got past checkHandshake(): it raised nothing there
WriteReachedLoop ==
  last.op = "write" /\ (last.err = "" \/ WriteCalls # <<>>)

\* C11: every SSL_write call of a write(buf, len) is issued for the suffix not
\* yet written (offset = the sum of the earlier results, length = len minus
\* that sum); every call but the last returned a positive result; a last call
\* with a result <= 0 makes write() raise, and write() returns normally only
\* when the positive results add up to len; the loop makes at most len calls.
C11_WriteAccumulatesChunks ==
  WriteReachedLoop =>
    LET wc == WriteCalls
        n == Len(wc) IN
    /\ \A i \in 1..n :
         /\ wc[i].a = SumRet(wc, i - 1)
         /\ wc[i].b = last.arg - SumRet(wc, i - 1)
         /\ i < n => wc[i].ret > 0
    /\ (n >= 1 /\ wc[n].ret <= 0) => last.err = "TSSLException"
    /\ last.err = "" => SumRet(wc, n) = last.arg
    /\ n <= last.arg

\* a write completed in more than one chunk
C11_Witness ==
  /\ last.op = "write"
  /\ last.err = ""
  /\ Len(WriteCalls) >= 2
  /\ SumRet(WriteCalls, Len(WriteCalls)) = last.arg

ShutdownOf(calls) == SelectSeq(calls, LAMBDA c : c.fn = "SSL_shutdown")
\* the calls of a close() that found a session: the shutdown attempt (a second
\* SSL_shutdown exactly when the first returned 0), SSL_free, TSocket::close
ClosedSession(calls) ==
  LET sd == ShutdownOf(calls)
      n == Len(sd) IN
  /\ n \in {1, 2}
  /\ n = 2 <=> sd[1].ret = 0
  /\ Len(calls) = n + 2
  /\ \A i \in 1..n : calls[i].fn = "SSL_shutdown"
  /\ calls[n + 1].fn = "SSL_free"
  /\ calls[n + 2].fn = "TSocket::close"

\* C12: close() never raises, in any state of the socket and however often it
\* is called: without a session it calls TSocket::close and nothing else; with
\* a session it calls SSL_shutdown (a second time only when the first call
\* returned 0), raises nothing whatever SSL_shutdown returned, frees the
\* session and then calls TSocket::close. After close() the session is absent
\* and isOpen() is false.
C12_CloseNeverRaises ==
  [][ last'.op = "close" =>
        /\ last'.err = ""
        /\ ~ssl_'.present
        /\ ~IsOpenOf(ssl_', tsockOpen')
        /\ IF ssl_.present
             THEN ClosedSession(last'.calls)
             ELSE last'.calls = <<Prim("TSocket::close", 0)>> ]_vars

\* a close() whose second SSL_shutdown failed, and that returned normally
C12_Witness ==
  /\ last.op = "close"
  /\ last.err = ""
  /\ Len(ShutdownOf(last.calls)) = 2
  /\ ShutdownOf(last.calls)[2].ret < 0
  /\ ~ssl_.present

\* a createSocket step of thread t's factory
MintStep(t) == last.op # "createSocket" /\ last'.op = "createSocket" /\ last'.arg = t

\* C13: on a factory on which no manager was set explicitly, a socket minted
\* in client role carries the default manager and a socket minted in server
\* role carries no manager, whatever was minted before; the socket has the
\* role of the factory at the time of minting.
C13_ServerSocketsGetNoManager ==
  [][ \A t \in Threads :
        (MintStep(t) /\ factoryAccess_[t] # "custom") =>
          /\ server_' = factoryServer_[t]
          /\ access_' = IF factoryServer_[t] THEN "NULL" ELSE "default" ]_vars

\* a close() of the socket that changed anything
CloseStep == last'.op = "close" /\ sockVars' # sockVars

\* C20: while every construction succeeds, the engine is initialized, with its
\* lock table and callbacks, in every state in which the socket holds a
\* session, and close() changes neither count_ nor initialized.
C20_EngineOutlivesSessions ==
  /\ [](~ctorFailed /\ ssl_.present => initialized /\ mutexes)
  /\ [][CloseStep => UNCHANGED <<count_, initialized>>]_vars

\* ---- the hostname match, stated without the loop of matchName
MatchReturned == verifyCall.op = "matchName" /\ verifyCall.done
IsLower(c) == 97 <= c /\ c <= 122
IsUpper(c) == 65 <= c /\ c <= 90
\* the same character, or the same ASCII letter in the other case
SameLetter(c, d) ==
  \/ c = d
  \/ IsLower(c) /\ d = c - 32
  \/ IsLower(d) /\ c = d - 32
DotsIn(str) == {k \in 1..Len(str) : str[k] = Dot}
\* the label position k lies in (labels counted from 0), and where in it:
\* counted from the start of the label and from its end
LabelOf(str, k) == Cardinality({m \in DotsIn(str) : m < k})
FromStart(str, k) == Cardinality({m \in 1..k : \A d \in DotsIn(str) : d < k => d < m})
FromEnd(str, k) == Cardinality({m \in k..Len(str) : \A d \in DotsIn(str) : d > k => d > m})
StarBefore(pattern, k) ==
  \E m \in 1..(k - 1) : pattern[m] = Star /\ LabelOf(pattern, m) = LabelOf(pattern, k)
\* the pattern character at k is a literal, and the host has the same letter
\* at the aligned place: same label, same offset from the start of the label
\* (from its end when a '*' comes before k in the label)
Aligned(host, pattern, k) ==
  \E p \in 1..Len(host) :
    /\ host[p] # Dot
    /\ LabelOf(host, p) = LabelOf(pattern, k)
    /\ IF StarBefore(pattern, k)
         THEN FromEnd(host, p) = FromEnd(pattern, k)
         ELSE FromStart(host, p) = FromStart(pattern, k)
    /\ SameLetter(host[p], pattern[k])
Literals(pattern) == {k \in 1..Len(pattern) : pattern[k] \notin {Dot, Star}}
Stars(pattern) == {k \in 1..Len(pattern) : pattern[k] = Star}

\* C14: when matchName returns true for a hostname of letters and '.', the
\* host and the pattern have the same number of '.' (a '*' absorbed no '.'),
\* and every literal of the pattern has the same letter, up to ASCII case, at
\* the aligned place of the host.
C14_WildcardStaysInLabel ==
  (MatchReturned /\ verifyCall.match) =>
    LET host == verifyCall.host
        pattern == verifyCall.name IN
    /\ Cardinality(DotsIn(host)) = Cardinality(DotsIn(pattern))
    /\ \A k \in Literals(pattern) : Aligned(host, pattern, k)

\* a '*' that absorbed a label of two letters, before a literal label
C14_Witness ==
  /\ MatchReturned
  /\ verifyCall.match
  /\ verifyCall.host = <<97, 66, Dot, 97>>
  /\ verifyCall.name = <<Star, Dot, 65>>

\* the host label with index lbl exists and has no character
EmptyLabel(host, lbl) ==
  /\ lbl <= Cardinality(DotsIn(host))
  /\ \A p \in 1..Len(host) : host[p] # Dot => LabelOf(host, p) # lbl

\* C15: matchName returns true only when pattern and hostname end together
\* (without '*', the two have the same length and the same letters), and it
\* returns false whenever the host label aligned with a '*' is empty.
C15_ConsumedTogetherNoEmptyLabel ==
  MatchReturned =>
    LET host == verifyCall.host
        pattern == verifyCall.name IN
    /\ (verifyCall.match /\ Stars(pattern) = {}) =>
         /\ Len(host) = Len(pattern)
         /\ \A k \in 1..Len(pattern) : SameLetter(host[k], pattern[k])
    /\ (\E k \in Stars(pattern) : EmptyLabel(host, LabelOf(pattern, k))) =>
         ~verifyCall.match

FlipCase(c) == IF IsLower(c) THEN c - 32 ELSE IF IsUpper(c) THEN c + 32 ELSE c
FlipAt(str, k) == [str EXCEPT ![k] = FlipCase(@)]

\* C16: putting a letter of the hostname or of the pattern into the other case
\* does not change the result of matchName, and uppercase maps 'a'..'z' to
\* 'A'..'Z' and every other char to itself.
C16_CaseInsensitive ==
  /\ MatchReturned =>
       LET host == verifyCall.host
           pattern == verifyCall.name
           size == verifyCall.size IN
       /\ \A k \in 1..Len(host) :
            matchName(FlipAt(host, k), pattern, size) = verifyCall.match
       /\ \A k \in 1..Len(pattern) :
            matchName(host, FlipAt(pattern, k), size) = verifyCall.match
  /\ \A c \in Bytes :
       uppercase(c) = IF c \in 97..122 THEN c - 97 + 65 ELSE c

\* a match of a lower-case host letter with an upper-case pattern letter
C16_Witness ==
  /\ MatchReturned
  /\ verifyCall.match
  /\ \E k \in 1..Len(verifyCall.name) :
       /\ k <= Len(verifyCall.host)
       /\ IsLower(verifyCall.host[k])
       /\ IsUpper(verifyCall.name[k])

VerifyReturned(op) == verifyCall.op = op /\ verifyCall.done
\* the pattern is the peer address of an IPv4 or IPv6 peer, byte for byte
AddressEquals ==
  /\ \/ verifyCall.family = "AF_INET" /\ verifyCall.size = 4
     \/ verifyCall.family = "AF_INET6" /\ verifyCall.size = 16
  /\ verifyCall.data = verifyCall.addr
\* the first two checks of C17: verify(sa) and verify(sa, data, size)
AddressChecks ==
  /\ VerifyReturned("verify(sa)") => verifyCall.ret = "SKIP"
  /\ VerifyReturned("verify(sa, data, size)") =>
       /\ verifyCall.ret \in {"ALLOW", "SKIP"}
       /\ verifyCall.ret = "ALLOW" <=> AddressEquals

\* C17 as stated: the default manager never denies; verify(sa) is SKIP; the
\* address pattern is ALLOW exactly on a byte-for-byte match of the family's
\* address; the hostname check is ALLOW exactly when matchName is true.
C17_HostnameAllowIffMatch ==
  /\ AddressChecks
  /\ VerifyReturned("verify(host, name, size)") =>
       /\ verifyCall.ret \in {"ALLOW", "SKIP"}
       /\ verifyCall.ret = "ALLOW" <=>
            matchName(verifyCall.host, verifyCall.name, verifyCall.size)

\* C17 amended: as above, but the hostname check is ALLOW exactly when the
\* hostname is not empty, the pattern is not NULL and has a size > 0, and
\* matchName is true; it is SKIP otherwise.
C17_HostnameAllowIffGuardedMatch ==
  /\ AddressChecks
  /\ VerifyReturned("verify(host, name, size)") =>
       /\ verifyCall.ret \in {"ALLOW", "SKIP"}
       /\ verifyCall.ret = "ALLOW" <=>
            /\ verifyCall.host # <<>>
            /\ ~verifyCall.nameNull
            /\ verifyCall.size > 0
            /\ matchName(verifyCall.host, verifyCall.name, verifyCall.size)

\* the empty hostname against the empty pattern: matchName is true, the
\* manager answers SKIP
C17_Witness ==
  /\ VerifyReturned("verify(host, name, size)")
  /\ verifyCall.host = <<>>
  /\ verifyCall.size = 0
  /\ matchName(verifyCall.host, verifyCall.name, verifyCall.size)
  /\ verifyCall.ret = "SKIP"

\* the hostname of the peer as the role has it: getPeerHost() for a server,
\* getHost() for a client
RoleHost == IF server_ THEN peerHost ELSE host_

\* C18: in an authorization pass every hostname handed to the manager, for a
\* DNS alternate name and for a common name alike, is the peer hostname on a
\* server socket and the configured target hostname on a client socket.
C18_RoleCorrectHostname ==
  ManagerConsulted =>
    \A i \in 1..Len(auth.trace) :
      auth.trace[i].kind \in {"dns", "cn"} => auth.trace[i].host = RoleHost

\* C19: a read(buf, len) that returns has called SSL_read at least once, and
\* returns the result n of its last SSL_read call, with 0 <= n <= len.
C19_ReadReturnsLastResult ==
  (last.op = "read" /\ last.err = "") =>
    LET rc == ReadCalls
        n == Len(rc) IN
    /\ n >= 1
    /\ rc[n].ret >= 0
    /\ rc[n].ret <= last.arg
    /\ last.ret = Uint32(rc[n].ret)

\* no constructor or destructor is under way: every thread is outside them
Quiescent == mutex_ = 0 /\ \A t \in Threads : fpc[t] \in {"idle", "live"}
\* the factories constructed with success and not yet destroyed
ConstructedFactories == {t \in Threads : fpc[t] = "live"}

\* C21: in every quiescent state, whether or not a construction has failed,
\* initialized = (count_ > 0), count_ is the number of factories constructed
\* with success and not yet destroyed, and an initialized engine has its lock
\* table and callbacks installed: a failed construction leaves nothing behind.
C21_FailedCtorLeavesNoTrace ==
  Quiescent =>
    /\ initialized <=> count_ > 0
    /\ count_ = Cardinality(ConstructedFactories)
    /\ initialized => mutexes

====
